---- MODULE Spec2Model ----
(***************************************************************************)
(* A model of pyft: the FIT parser, infer_points_data and the activity     *)
(* type of the parsers (pyft/serialize/parse.py, pyft/parse/parsers.py),   *)
(* the lap helpers (pyft/df_utils/helper_funcs.py), the split methods of   *)
(* Activity and ActivityMetaData (pyft/activity.py).                       *)
(*                                                                         *)
(* Python's None is the empty sequence and a present value v is <<v>>, so   *)
(* that "x is None" is x = None for a value of any type.                    *)
(***************************************************************************)
EXTENDS Integers, Sequences, FiniteSets, TLC

VARIABLES
    _point,        \* FITParser._point: the last point number handed out
    _points_data,  \* FITParser._points_data: the emitted rows
    _backfill,     \* FITParser._backfill: the rows waiting for a position
    _points,       \* FITParser._points: the frame built when _parse ends
    pc,            \* where _parse is: "parsing", "done" or "failed"
    arrived,       \* history: every row as _add_point first built it
    laps,          \* laps['start_time'], the argument of the lap helpers
    points,        \* the points frame given to the lap helpers
    returned,      \* the last function called and what it returned
    split_col,     \* the split_col argument of the split methods
    config,        \* the Config of the parser: speed_measure_interval
    df,            \* the raw frame given to infer_points_data
    gpx,           \* GPXParser.gpx: the track type and the creator
    _metadata,     \* FITParser._metadata
    kwargs         \* the keyword arguments given to ActivityMetaData

vars ==
    <<_point, _points_data, _backfill, _points, pc, arrived, laps, points, returned,
      split_col, config, df, gpx, _metadata, kwargs>>

callVars == <<split_col, config, df, gpx, _metadata, kwargs>>

fitVars == <<_point, _points_data, _backfill, _points, pc, arrived>>

lapVars == <<laps, points, returned>>

None == <<>>

Some(v) == <<v>>

(***************************************************************************)
(* Bounds.                                                                 *)
(***************************************************************************)
MaxSamples == 3

ScenarioBuffered == 3

MaxLaps == 2

MaxPoints == 2

MaxSplitPoints == 3

MaxBuildPoints == 4

----------------------------------------------------------------------------
(***************************************************************************)
(* Numbers.  A float is modelled exactly, as (m / d) * 2^e with m and d    *)
(* odd and coprime, d > 0 (m = 0: d = 1 and e = 0): every quotient the     *)
(* parser computes has one such form, and 2^32 stays inside TLC's          *)
(* integers.                                                               *)
(***************************************************************************)
RECURSIVE Gcd(_, _)
Gcd(a, b) == IF b = 0 THEN a ELSE Gcd(b, a % b)

Abs(n) == IF n < 0 THEN -n ELSE n

RECURSIVE OddPart(_)
OddPart(n) == IF n # 0 /\ n % 2 = 0 THEN OddPart(n \div 2) ELSE n

RECURSIVE TwoExp(_)
TwoExp(n) == IF n # 0 /\ n % 2 = 0 THEN 1 + TwoExp(n \div 2) ELSE 0

Num(m, d, e) ==
    IF m = 0 THEN [m |-> 0, d |-> 1, e |-> 0]
    ELSE LET g == Gcd(Abs(OddPart(m)), OddPart(d))
         IN  [m |-> OddPart(m) \div g,
              d |-> OddPart(d) \div g,
              e |-> e + TwoExp(m) - TwoExp(d)]

Float(n) == Num(n, 1, 0)

Pow2(k) == Num(1, 1, k)

\* a / b, with the common factors taken out before the products are formed
Div(a, b) ==
    LET g1 == Gcd(Abs(a.m), Abs(b.m))
        g2 == Gcd(b.d, a.d)
        s  == IF b.m < 0 THEN -1 ELSE 1
    IN  Num(s * (a.m \div g1) * (b.d \div g2),
            (a.d \div g2) * (Abs(b.m) \div g1),
            a.e - b.e)

Mul(a, b) == Div(a, Div(Float(1), b))

\* 2^k as an integer, k >= 0
RECURSIVE TwoTo(_)
TwoTo(k) == IF k = 0 THEN 1 ELSE 2 * TwoTo(k - 1)

Min(a, b) == IF a <= b THEN a ELSE b

\* a + b, over the least common denominator
Add(a, b) ==
    LET e0 == Min(a.e, b.e)
        g  == Gcd(a.d, b.d)
    IN  Num(a.m * TwoTo(a.e - e0) * (b.d \div g) + b.m * TwoTo(b.e - e0) * (a.d \div g),
            (a.d \div g) * b.d, e0)

Neg(a) == [a EXCEPT !.m = -a.m]

Sub(a, b) == Add(a, Neg(b))

Less(a, b) == Sub(a, b).m < 0

Leq(a, b) == Sub(a, b).m <= 0

----------------------------------------------------------------------------
(***************************************************************************)
(* FITParser.                                                              *)
(***************************************************************************)
LATLON_TO_DECIMAL == Div(Pow2(32), Float(360))

INITIAL_COL_NAMES ==
    {"point_no", "track_no", "segment_no", "latitude", "longitude",
     "elevation", "time", "hr", "cadence"}

\* a number is left out at every call
get_point_no_skipping(p) == p + 2

get_point_no(p) == p + 1

\* the dict _parse starts from
NoMetadata ==
    [name |-> None, date_time |-> None, description |-> None, activity_type |-> None]

ACTIVITY_TYPES == {"run", "walk", "hike"}

GARMIN_TYPES == ("hiking" :> "hike") @@ ("running" :> "run") @@ ("walking" :> "walk")

STRAVA_TYPES == ("4" :> "hike") @@ ("9" :> "run") @@ ("10" :> "walk")

\* dict.get(key, default)
DictGet(dict, key, default) ==
    IF key # None /\ key[1] \in DOMAIN dict THEN Some(dict[key[1]]) ELSE default

\* the first timestamp of the file becomes the date_time
WithDateTime(metadata, timestamp) ==
    IF metadata.date_time = None /\ timestamp # None
    THEN [metadata EXCEPT !.date_time = timestamp]
    ELSE metadata

\* while no activity type is known, a sport field is looked up
WithActivityType(metadata, sport) ==
    IF metadata.activity_type = None /\ sport # None
    THEN [metadata EXCEPT !.activity_type = DictGet(GARMIN_TYPES, sport, None)]
    ELSE metadata

\* the row _add_point builds before it looks at the buffer
NewData(point_no, lat, lon, elev, timestamp, heart_rate, cadence) ==
    [point_no   |-> Some(point_no),
     track_no   |-> Some(0),
     segment_no |-> Some(0),
     latitude   |-> IF lat # None THEN Some(Div(lat[1], LATLON_TO_DECIMAL)) ELSE None,
     longitude  |-> IF lon # None THEN Some(Div(lon[1], LATLON_TO_DECIMAL)) ELSE None,
     elevation  |-> elev,
     time       |-> timestamp,
     hr         |-> heart_rate,
     cadence    |-> cadence]

\* a sample is buffered only when it has neither coordinate
NeedsBackfillBoth(lat, lon) == (lat = None) /\ (lon = None)

\* `if (lat is None) or (lon is None)`
NeedsBackfill(lat, lon) == (lat = None) \/ (lon = None)

\* the triggering sample's values overwrite the buffered row's
MergeOverwrite(to_add, data) ==
    [k \in DOMAIN data |-> IF data[k] # None THEN data[k] ELSE to_add[k]]

\* only the position is backfilled
MergeGeoOnly(to_add, data) ==
    [k \in DOMAIN data |->
        IF (k \in {"latitude", "longitude"}) /\ (to_add[k] = None) /\ (data[k] # None)
        THEN data[k] ELSE to_add[k]]

\* the inner loop over the keys of data, for one buffered row
MergeIfNull(to_add, data) ==
    [k \in DOMAIN data |->
        IF (to_add[k] = None) /\ (data[k] # None) THEN data[k] ELSE to_add[k]]

\* the triggering sample is appended before the buffered rows
FlushTriggerFirst(emitted, buffer, data) ==
    emitted \o <<data>> \o [i \in 1..Len(buffer) |-> MergeIfNull(buffer[i], data)]

\* the buffer is cleared without its rows being appended
FlushDropsBuffer(emitted, buffer, data) == emitted \o <<data>>

\* _points_data after the else branch: the buffered rows, filled, then data
Flush(emitted, buffer, data) ==
    emitted \o [i \in 1..Len(buffer) |-> MergeIfNull(buffer[i], data)] \o <<data>>

\* the rows still buffered are appended to the frame
PointsFrameWithBuffer(emitted, buffer) == emitted \o buffer

\* the frame _parse builds from the emitted rows (their raw columns)
PointsFrame(emitted, buffer) == emitted

----------------------------------------------------------------------------
(***************************************************************************)
(* The samples _parse feeds to _add_point.  The n-th sample's values carry *)
(* n, so that a value's origin can be read off an emitted row; each        *)
(* optional field is present or absent.                                    *)
(***************************************************************************)
RawLatInputs(n) == {None, Some(Float((n + 1) * 16777216))}

RawLonInputs(n) == {None, Some(Float(-(n + 1) * 33554432))}

ElevInputs(n) == {None, Some(100 + n)}

HrInputs(n) == {None, Some(60 + n)}

CadenceInputs(n) == {None, Some(80 + n)}

TimeInput(n) == Some(n)

\* the raw position that _add_point turns into deg decimal degrees
RawOfDegrees(deg) == Mul(Float(deg), LATLON_TO_DECIMAL)

_add_point(lat, lon, elev, timestamp, heart_rate, cadence) ==
    LET n    == get_point_no(_point)
        data == NewData(n, lat, lon, elev, timestamp, heart_rate, cadence)
    IN  /\ pc = "parsing"
        /\ _point' = n
        /\ arrived' = Append(arrived, data)
        /\ IF NeedsBackfill(lat, lon)
           THEN /\ _backfill' = Append(_backfill, data)
                /\ _points_data' = _points_data
           ELSE /\ _points_data' = Flush(_points_data, _backfill, data)
                /\ _backfill' = <<>>
        /\ UNCHANGED <<_points, pc>>
        /\ UNCHANGED lapVars
        /\ UNCHANGED <<split_col, config, df, gpx, kwargs>>

\* one accepted frame of the loop in _parse: position, heart rate and cadence
\* are each present or absent
AddSample ==
    /\ Len(arrived) < MaxSamples
    /\ \E lat \in RawLatInputs(_point + 1), lon \in RawLonInputs(_point + 1),
          heart_rate \in HrInputs(_point + 1), cadence \in CadenceInputs(_point + 1) :
           _add_point(lat, lon, Some(100 + _point + 1), TimeInput(_point + 1),
                      heart_rate, cadence)
    /\ _metadata' = WithDateTime(_metadata, TimeInput(_point + 1))

\* the frames of the backfill scenario: ScenarioBuffered samples without a
\* position, then one at latitude 10.0, longitude 20.0; elevation, heart rate
\* and cadence are each present or absent on every one of them
ScenarioSample ==
    /\ Len(arrived) <= ScenarioBuffered
    /\ \E elev \in ElevInputs(_point + 1), heart_rate \in HrInputs(_point + 1),
          cadence \in CadenceInputs(_point + 1) :
           IF Len(arrived) < ScenarioBuffered
           THEN _add_point(None, None, elev, TimeInput(_point + 1), heart_rate, cadence)
           ELSE _add_point(Some(RawOfDegrees(10)), Some(RawOfDegrees(20)), elev,
                           TimeInput(_point + 1), heart_rate, cadence)
    /\ _metadata' = WithDateTime(_metadata, TimeInput(_point + 1))

\* the stream ends: _parse builds the frame, which fails on no rows
EndOfStream ==
    /\ pc = "parsing"
    /\ IF _points_data = <<>>
       THEN pc' = "failed" /\ _points' = _points
       ELSE pc' = "done" /\ _points' = PointsFrame(_points_data, _backfill)
    /\ UNCHANGED <<_point, _points_data, _backfill, arrived>>
    /\ UNCHANGED lapVars
    /\ UNCHANGED callVars

Init ==
    /\ _point = -1
    /\ _points_data = <<>>
    /\ _backfill = <<>>
    /\ _points = None
    /\ pc = "parsing"
    /\ arrived = <<>>
    /\ laps = <<>>
    /\ points = <<>>
    /\ returned = [op |-> "none", error |-> None, value |-> None]
    /\ split_col = "km"
    /\ config = [speed_measure_interval |-> 1]
    /\ df = [columns |-> INITIAL_COL_NAMES, rows |-> <<>>]
    /\ gpx = [track_type |-> None, creator |-> None]
    /\ _metadata = NoMetadata
    /\ kwargs = None

Next == AddSample \/ EndOfStream

Spec == Init /\ [][Next]_vars

ScenarioNext == ScenarioSample \/ EndOfStream

ScenarioSpec == Init /\ [][ScenarioNext]_vars

----------------------------------------------------------------------------
(***************************************************************************)
(* The lap helpers of df_utils/helper_funcs.py.  laps is the column        *)
(* laps['start_time'], a sequence of times; points is a sequence of rows   *)
(* with the columns the helpers read: time, cumul_distance_2d, lap, hr.    *)
(* A call returns [error, value]; none of the helpers has a raise.         *)
(***************************************************************************)
\* start_times is in non-decreasing order
Ordered(start_times) ==
    \A i \in 1..(Len(start_times) - 1) : start_times[i] <= start_times[i + 1]

\* Series.shift(-1, fill_value=fill)
ShiftUp(column, fill) ==
    [i \in 1..Len(column) |-> IF i < Len(column) THEN column[i + 1] ELSE fill]

\* the helper refuses start times that are out of order
get_lap_durations_checked(start_times, pts) ==
    IF Ordered(start_times)
    THEN [error |-> None,
          value |-> [i \in 1..Len(start_times) |->
                        start_times[i] - ShiftUp(start_times, pts[Len(pts)].time)[i]]]
    ELSE [error |-> Some("SchemaError"), value |-> None]

get_lap_durations(start_times, pts) ==
    [error |-> None,
     value |-> [i \in 1..Len(start_times) |->
                   start_times[i] - ShiftUp(start_times, pts[Len(pts)].time)[i]]]

\* the keys of groupby('lap'), which come out sorted
LapKeys(pts) == {pts[i].lap : i \in 1..Len(pts)}

\* groupby('lap').first() of cumul_distance_2d
FirstOfLap(pts, l) ==
    LET i == CHOOSE i \in 1..Len(pts) :
                 pts[i].lap = l /\ \A j \in 1..(i - 1) : pts[j].lap # l
    IN  pts[i].cumul_distance_2d

\* first.shift(-1, fill_value=...) at key l: the row of the next key
NextFirst(pts, l) ==
    IF \E m \in LapKeys(pts) : m > l
    THEN LET m == CHOOSE m \in LapKeys(pts) :
                      m > l /\ \A o \in LapKeys(pts) : o > l => m <= o
         IN  FirstOfLap(pts, m)
    ELSE pts[Len(pts)].cumul_distance_2d

get_lap_distances(pts) ==
    [error |-> None,
     value |-> [l \in LapKeys(pts) |-> FirstOfLap(pts, l) - NextFirst(pts, l)]]

RECURSIVE SumHr(_, _, _)
SumHr(pts, l, i) ==
    IF i = 0 THEN 0
    ELSE SumHr(pts, l, i - 1)
         + (IF pts[i].lap = l /\ pts[i].hr # None THEN pts[i].hr[1] ELSE 0)

CountHr(pts, l) == Cardinality({i \in 1..Len(pts) : pts[i].lap = l /\ pts[i].hr # None})

\* groupby(groupby).mean() with cols = ['hr']: the mean skips missing values
\* and is missing for a group that has none
get_lap_means(pts) ==
    [error |-> None,
     value |-> [l \in LapKeys(pts) |->
                   IF CountHr(pts, l) = 0 THEN None
                   ELSE Some(Div(Float(SumHr(pts, l, Len(pts))), Float(CountHr(pts, l))))]]

\* the start-time columns tried: every order of every length, over the times
\* a point can have
StartTimeInputs == UNION {[1..n -> 0..MaxPoints] : n \in 1..MaxLaps}

\* what one row adds to the row before it: time, distance, lap number
StepInputs == {0, 1}

\* the i-th row has a heart rate of its own or none
HrOfRow(i) == {None, Some(60 + 10 * i)}

FirstRows ==
    {[time |-> t, cumul_distance_2d |-> 0, lap |-> 0, hr |-> h] :
        t \in StepInputs, h \in HrOfRow(1)}

\* the frames of n rows, as infer_points_data leaves them: time and cumulative
\* distance do not decrease and the first cumulative distance is 0; the lap
\* number starts at 0 and goes up by one at a time
RECURSIVE FramesOf(_)
FramesOf(n) ==
    IF n = 1 THEN {<<r>> : r \in FirstRows}
    ELSE {Append(f, [time |-> f[n - 1].time + dt,
                     cumul_distance_2d |-> f[n - 1].cumul_distance_2d + dd,
                     lap |-> IF f[n - 1].lap + dl < MaxLaps
                             THEN f[n - 1].lap + dl ELSE f[n - 1].lap,
                     hr |-> h]) :
            f \in FramesOf(n - 1), dt \in StepInputs, dd \in StepInputs,
            dl \in StepInputs, h \in HrOfRow(n)}

PointsInputs == UNION {FramesOf(n) : n \in 1..MaxPoints}

LapInit ==
    /\ _point = -1
    /\ _points_data = <<>>
    /\ _backfill = <<>>
    /\ _points = None
    /\ pc = "parsing"
    /\ arrived = <<>>
    /\ laps \in StartTimeInputs
    /\ points \in PointsInputs
    /\ returned = [op |-> "none", error |-> None, value |-> None]
    /\ split_col = "km"
    /\ config = [speed_measure_interval |-> 1]
    /\ df = [columns |-> INITIAL_COL_NAMES, rows |-> <<>>]
    /\ gpx = [track_type |-> None, creator |-> None]
    /\ _metadata = NoMetadata
    /\ kwargs = None

CallLapDurations ==
    /\ returned' = [op |-> "get_lap_durations"] @@ get_lap_durations(laps, points)
    /\ UNCHANGED <<laps, points>>
    /\ UNCHANGED fitVars
    /\ UNCHANGED callVars

CallLapDistances ==
    /\ returned' = [op |-> "get_lap_distances"] @@ get_lap_distances(points)
    /\ UNCHANGED <<laps, points>>
    /\ UNCHANGED fitVars
    /\ UNCHANGED callVars

CallLapMeans ==
    /\ returned' = [op |-> "get_lap_means"] @@ get_lap_means(points)
    /\ UNCHANGED <<laps, points>>
    /\ UNCHANGED fitVars
    /\ UNCHANGED callVars

LapNext == CallLapDurations \/ CallLapDistances \/ CallLapMeans

LapSpec == LapInit /\ [][LapNext]_vars

----------------------------------------------------------------------------
(***************************************************************************)
(* Properties of the FIT parser.                                           *)
(***************************************************************************)
\* the row arrived with both coordinates
Complete(row) == (row.latitude # None) /\ (row.longitude # None)

\* the first sample at or after arrival i that carried both coordinates
Trigger(i) ==
    CHOOSE t \in i..Len(arrived) :
        Complete(arrived[t]) /\ \A u \in i..(t - 1) : ~Complete(arrived[u])

HasTrigger(i) == \E t \in i..Len(arrived) : Complete(arrived[t])

\* C1: a sample without latitude or longitude is held in the buffer, not
\* emitted; a sample with both coordinates flushes the buffer in arrival order
\* and goes last, leaving the buffer empty.  So the emitted rows are, in order
\* and once each, the arrivals up to the last sample with both coordinates,
\* and the buffer holds the later arrivals, untouched.
C1_EmittedInArrivalOrder ==
    LET k == Len(_points_data)
    IN  /\ k + Len(_backfill) = Len(arrived)
        /\ \A i \in 1..k :
              /\ _points_data[i].point_no = arrived[i].point_no
              /\ _points_data[i].time = arrived[i].time
        /\ k > 0 => Complete(arrived[k])
        /\ \A j \in 1..Len(_backfill) :
              /\ ~Complete(arrived[k + j])
              /\ _backfill[j] = arrived[k + j]

\* two samples were buffered and the third flushed them
C1_Witness ==
    /\ Len(arrived) = 3
    /\ ~Complete(arrived[1])
    /\ ~Complete(arrived[2])
    /\ Complete(arrived[3])
    /\ Len(_points_data) = 3
    /\ _backfill = <<>>

\* C2: backfill is merge-if-null.  Every emitted row has, in each field, the
\* value it arrived with when it arrived with one (point_no and a lone
\* latitude or longitude included), and otherwise the value of that field in
\* the sample that flushed it.
C2_MergeIfNull ==
    \A i \in 1..Len(_points_data) :
        /\ HasTrigger(i)
        /\ \A k \in INITIAL_COL_NAMES :
              _points_data[i][k] =
                  IF arrived[i][k] # None THEN arrived[i][k]
                  ELSE arrived[Trigger(i)][k]

\* a buffered row with a latitude of its own and no heart rate was flushed by
\* a sample with a heart rate
C2_Witness ==
    \E i \in 1..Len(_points_data) :
        /\ arrived[i].latitude # None
        /\ arrived[i].longitude = None
        /\ arrived[i].hr = None
        /\ arrived[Trigger(i)].hr # None
        /\ _points_data[i].hr = arrived[Trigger(i)].hr
        /\ _points_data[i].latitude # arrived[Trigger(i)].latitude

ScenarioFields == {"elevation", "hr", "cadence", "time"}

ScenarioEmitted == Len(_points_data) = ScenarioBuffered + 1

\* C3 as claimed: in the backfill scenario every emitted point is at
\* latitude 10.0, longitude 20.0 and has the elevation, heart rate, cadence
\* and timestamp of its own sample, an absent one staying absent.
C3_AsClaimed ==
    ScenarioEmitted =>
        \A i \in 1..Len(_points_data) :
            /\ _points_data[i].latitude = Some(Float(10))
            /\ _points_data[i].longitude = Some(Float(20))
            /\ \A k \in ScenarioFields : _points_data[i][k] = arrived[i][k]

\* C3, amended: in the backfill scenario every emitted point is at latitude
\* 10.0, longitude 20.0; an elevation, heart rate, cadence or timestamp that
\* its sample recorded is kept, and one that its sample lacked is the
\* triggering sample's (absent only when that sample lacks it too).
C3_Backfilled ==
    ScenarioEmitted =>
        \A i \in 1..Len(_points_data) :
            /\ _points_data[i].latitude = Some(Float(10))
            /\ _points_data[i].longitude = Some(Float(20))
            /\ \A k \in ScenarioFields :
                  _points_data[i][k] =
                      IF arrived[i][k] # None THEN arrived[i][k]
                      ELSE arrived[ScenarioBuffered + 1][k]

\* the scenario ran, the first sample had no heart rate and a cadence, and the
\* triggering sample had a heart rate
C3_Witness ==
    /\ ScenarioEmitted
    /\ arrived[1].hr = None
    /\ arrived[1].cadence # None
    /\ arrived[ScenarioBuffered + 1].hr # None
    /\ _points_data[1].hr = arrived[ScenarioBuffered + 1].hr

\* the last arrival that carried both coordinates, 0 when there is none
LastComplete ==
    IF \E t \in 1..Len(arrived) : Complete(arrived[t])
    THEN CHOOSE t \in 1..Len(arrived) :
            Complete(arrived[t]) /\ \A u \in (t + 1)..Len(arrived) : ~Complete(arrived[u])
    ELSE 0

\* C4: samples still buffered when the stream ends are not in the parser's
\* points: the frame built at the end of _parse holds exactly the samples up
\* to the last one with both coordinates.
C4_TrailingBufferDropped ==
    pc = "done" =>
        /\ Len(_points) = LastComplete
        /\ \A i \in 1..Len(_points) : _points[i].point_no = arrived[i].point_no
        /\ \A j \in 1..Len(_backfill) :
              \A i \in 1..Len(_points) : _points[i].point_no # _backfill[j].point_no

\* the stream ended after an emitted sample with a sample still buffered
C4_Witness ==
    /\ pc = "done"
    /\ _backfill # <<>>
    /\ Len(_points) >= 1

\* C5: along the emitted rows point_no is strictly increasing, and the k-th
\* emitted row, counting from 0, has point_no k, buffered samples or not.
C5_PointNoIsPosition ==
    /\ \A i \in 1..Len(_points_data) : _points_data[i].point_no = Some(i - 1)
    /\ \A i \in 1..(Len(_points_data) - 1) :
          _points_data[i].point_no[1] < _points_data[i + 1].point_no[1]

\* rows that waited in the buffer were emitted, followed by a later sample
C5_Witness ==
    /\ Len(_points_data) = 3
    /\ ~Complete(arrived[1])
    /\ Complete(arrived[2])
    /\ Complete(arrived[3])

\* C6: every emitted row has a latitude and a longitude; a sample that came
\* with one of the two only gets the other from a later sample first.
C6_EmittedHavePosition ==
    \A i \in 1..Len(_points_data) :
        /\ _points_data[i].latitude # None
        /\ _points_data[i].longitude # None

\* a sample that came with a longitude only was emitted
C6_Witness ==
    \E i \in 1..Len(_points_data) :
        /\ arrived[i].latitude = None
        /\ arrived[i].longitude # None

----------------------------------------------------------------------------
(***************************************************************************)
(* Properties of the lap helpers.                                          *)
(***************************************************************************)
LastTime == points[Len(points)].time

\* the laps are in order and lie inside the series
LapsWithinSeries ==
    /\ Ordered(laps)
    /\ points[1].time <= laps[1]
    /\ laps[Len(laps)] <= LastTime

RECURSIVE SumTo(_, _)
SumTo(column, n) == IF n = 0 THEN 0 ELSE SumTo(column, n - 1) + column[n]

\* C7 as claimed: get_lap_durations returns start_time[i+1] - start_time[i]
\* for every lap but the last and the last point's time minus the start time
\* for the last lap; for laps in order inside the series no duration is
\* negative.
C7_AsClaimed ==
    (returned.op = "get_lap_durations" /\ LapsWithinSeries) =>
        \A i \in 1..Len(laps) :
            /\ returned.value[i] =
                  (IF i < Len(laps) THEN laps[i + 1] ELSE LastTime) - laps[i]
            /\ returned.value[i] >= 0

\* C8 as claimed: for laps in order that start with the series, the durations
\* get_lap_durations returns add up to the last point's time minus the first
\* point's time.
C8_AsClaimed ==
    (returned.op = "get_lap_durations" /\ LapsWithinSeries /\ laps[1] = points[1].time) =>
        SumTo(returned.value, Len(laps)) = LastTime - points[1].time

\* C9 as claimed: get_lap_distances returns, for every lap but the last, the
\* cumulative distance at the start of the next lap minus the one at the
\* start of the lap, and for the last lap the final cumulative distance minus
\* the one at its start; no lap distance is negative.
C9_AsClaimed ==
    returned.op = "get_lap_distances" =>
        \A l \in LapKeys(points) :
            /\ returned.value[l] = NextFirst(points, l) - FirstOfLap(points, l)
            /\ returned.value[l] >= 0

----------------------------------------------------------------------------
(***************************************************************************)
(* The split methods of Activity (pyft/activity.py).  points is            *)
(* Activity.points, a sequence of rows with the columns the methods read:  *)
(* time, cumul_distance_2d, km, mile, hr.  A call returns [error, value].  *)
(***************************************************************************)
MILE == Div(Float(1609344), Float(1000))

\* the nearest whole number of kilometres
KmOfNearest(cumul) == (cumul + 500) \div 1000

\* df['km'] and df['mile'] of infer_points_data, for a whole number of metres
KmOf(cumul) == cumul \div 1000

MileOf(cumul) == (cumul * 1000) \div 1609344

SplitLen(col) == IF col = "km" THEN Float(1000) ELSE MILE

\* the positions of the rows of df[df[split_col] == b]
RowsOf(pts, col, b) == {i \in 1..Len(pts) : pts[i][col] = b}

MinOf(S) == CHOOSE x \in S : \A y \in S : x <= y

MaxOf(S) == CHOOSE x \in S : \A y \in S : y <= x

\* df[df[split_col] == i - 1].iloc[-1] and df[df[split_col] == i].iloc[0]
P1(pts, col, i) == pts[MaxOf(RowsOf(pts, col, i - 1))]

P2(pts, col, i) == pts[MinOf(RowsOf(pts, col, i))]

\* the portion is taken from the far side of the boundary
PortionFromOverrun(pts, col, i) ==
    LET overrun  == Sub(Float(P2(pts, col, i).cumul_distance_2d), Mul(SplitLen(col), Float(i)))
        underrun == Sub(Mul(SplitLen(col), Float(i)), Float(P1(pts, col, i).cumul_distance_2d))
    IN  Div(overrun, Add(underrun, overrun))

Portion(pts, col, i) ==
    LET overrun  == Sub(Float(P2(pts, col, i).cumul_distance_2d), Mul(SplitLen(col), Float(i)))
        underrun == Sub(Mul(SplitLen(col), Float(i)), Float(P1(pts, col, i).cumul_distance_2d))
    IN  Div(underrun, Add(underrun, overrun))

\* linear interpolation between two values
Between(v1, v2, portion) == Add(v1, Mul(portion, Sub(v2, v1)))

\* geo_utils.intersect_points: the point that lies portion of the way from
\* p1 to p2; a heart rate missing at either end is missing in between
intersect_points(p1, p2, portion) ==
    [time |-> Between(Float(p1.time), Float(p2.time), portion),
     cumul_distance_2d |->
         Between(Float(p1.cumul_distance_2d), Float(p2.cumul_distance_2d), portion),
     hr |-> IF p1.hr = None \/ p2.hr = None THEN None
            ELSE Some(Between(Float(p1.hr[1]), Float(p2.hr[1]), portion))]

\* one turn of the loop: the marker of boundary i
Marker(pts, col, i) ==
    intersect_points(P1(pts, col, i), P2(pts, col, i), Portion(pts, col, i))
        @@ [ends |-> i - 1, begins |-> i]

Buckets(pts, col) == {pts[i][col] : i \in 1..Len(pts)}

\* the boundaries of range(int(min_split) + 1, int(max_split) + 1)
Boundaries(pts, col) == (MinOf(Buckets(pts, col)) + 1)..MaxOf(Buckets(pts, col))

\* the loop over the boundaries: the markers come out as the rows 0, 1, ...
\* of a frame, here 1, 2, ...; .iloc of a bucket without rows raises
\* IndexError
SplitMarkersOf(col, pts) ==
    IF \E i \in Boundaries(pts, col) :
           RowsOf(pts, col, i - 1) = {} \/ RowsOf(pts, col, i) = {}
    THEN [error |-> Some("IndexError"), value |-> None]
    ELSE [error |-> None,
          value |-> [j \in 1..Cardinality(Boundaries(pts, col)) |->
                        Marker(pts, col, MinOf(Buckets(pts, col)) + j)]]

\* a unit that is not 'mile' is taken to be 'km'
get_split_markers_default_km(col, pts) ==
    SplitMarkersOf(IF col = "mile" THEN "mile" ELSE "km", pts)

get_split_markers(col, pts) ==
    IF col \notin {"km", "mile"}
    THEN [error |-> Some("ValueError"), value |-> None]
    ELSE SplitMarkersOf(col, pts)

RECURSIVE SumHrOf(_, _, _, _)
SumHrOf(pts, col, b, i) ==
    IF i = 0 THEN 0
    ELSE SumHrOf(pts, col, b, i - 1)
         + (IF pts[i][col] = b /\ pts[i].hr # None THEN pts[i].hr[1] ELSE 0)

CountHrOf(pts, col, b) == Cardinality({i \in RowsOf(pts, col, b) : pts[i].hr # None})

\* grouped.mean(), for the hr column (the other columns likewise)
MeanHrOf(pts, col, b) ==
    IF CountHrOf(pts, col, b) = 0 THEN None
    ELSE Some(Div(Float(SumHrOf(pts, col, b, Len(pts))), Float(CountHrOf(pts, col, b))))

\* split_times - split_times.shift(fill_value=first point time)
SplitTimeDiffs(split_times, first_time) ==
    [j \in 1..Len(split_times) |->
        Sub(split_times[j], IF j = 1 THEN first_time ELSE split_times[j - 1])]

\* summary['time'] after lines 201 and 202: the differences go to the buckets
\* by index label (marker row j - 1 to bucket j - 1), then the last bucket is
\* set from the last point
SummaryTime(pts, col, split_times, b) ==
    IF b = MaxOf(Buckets(pts, col))
    THEN Some(Sub(Float(pts[Len(pts)].time), split_times[Len(split_times)]))
    ELSE IF b + 1 \in 1..Len(split_times)
         THEN Some(SplitTimeDiffs(split_times, Float(pts[1].time))[b + 1])
         ELSE None

\* a frame of no markers has no 'time' column: KeyError
get_split_summary(col, pts) ==
    IF col \notin {"km", "mile"}
    THEN [error |-> Some("ValueError"), value |-> None]
    ELSE LET markers == get_split_markers(col, pts)
         IN  IF markers.error # None THEN markers
             ELSE IF markers.value = <<>>
                  THEN [error |-> Some("KeyError"), value |-> None]
                  ELSE LET split_times == [j \in 1..Len(markers.value) |->
                                              markers.value[j].time]
                       IN  [error |-> None,
                            value |-> [b \in Buckets(pts, col) |->
                                          [hr |-> MeanHrOf(pts, col, b),
                                           time |-> SummaryTime(pts, col, split_times, b)]]]

\* what one row adds to the distance of the row before it, in metres, and
\* to its time
SplitStepInputs == {600, 1100, 2200}

SplitTimeInputs == {1, 3}

SplitRow(time, cumul, hr) ==
    [time |-> time, cumul_distance_2d |-> cumul, km |-> KmOf(cumul),
     mile |-> MileOf(cumul), hr |-> hr]

\* the frames of n rows as infer_points_data leaves them: the first row is at
\* distance 0, times go up
RECURSIVE SplitFramesOf(_)
SplitFramesOf(n) ==
    IF n = 1 THEN {<<SplitRow(0, 0, h)>> : h \in HrOfRow(1)}
    ELSE {Append(f, SplitRow(f[n - 1].time + dt, f[n - 1].cumul_distance_2d + dd, h)) :
            f \in SplitFramesOf(n - 1), dt \in SplitTimeInputs, dd \in SplitStepInputs,
            h \in HrOfRow(n)}

SplitColInputs == {"km", "mile", "metre"}

SplitInit ==
    /\ _point = -1
    /\ _points_data = <<>>
    /\ _backfill = <<>>
    /\ _points = None
    /\ pc = "parsing"
    /\ arrived = <<>>
    /\ laps = <<>>
    /\ points \in UNION {SplitFramesOf(n) : n \in 1..MaxSplitPoints}
    /\ returned = [op |-> "none", error |-> None, value |-> None]
    /\ split_col \in SplitColInputs
    /\ config = [speed_measure_interval |-> 1]
    /\ df = [columns |-> INITIAL_COL_NAMES, rows |-> <<>>]
    /\ gpx = [track_type |-> None, creator |-> None]
    /\ _metadata = NoMetadata
    /\ kwargs = None

CallSplitMarkers ==
    /\ returned' = [op |-> "get_split_markers"] @@ get_split_markers(split_col, points)
    /\ UNCHANGED <<laps, points>>
    /\ UNCHANGED fitVars
    /\ UNCHANGED callVars

CallSplitSummary ==
    /\ returned' = [op |-> "get_split_summary"] @@ get_split_summary(split_col, points)
    /\ UNCHANGED <<laps, points>>
    /\ UNCHANGED fitVars
    /\ UNCHANGED callVars

SplitNext == CallSplitMarkers \/ CallSplitSummary

SplitSpec == SplitInit /\ [][SplitNext]_vars

----------------------------------------------------------------------------
(***************************************************************************)
(* Properties of the split methods.                                        *)
(***************************************************************************)
ValidSplitCol == split_col \in {"km", "mile"}

\* some bucket between the first and the last has no point
HasEmptyBucket(col) ==
    \E b \in MinOf(Buckets(points, col))..MaxOf(Buckets(points, col)) :
        RowsOf(points, col, b) = {}

\* C11 as claimed: for a series with buckets from m to M, get_split_markers
\* returns one marker for every boundary b with m < b <= M, in increasing
\* order, tagged ends = b - 1 and begins = b, also when a bucket between m
\* and M has no point.
C11_AsClaimed ==
    (returned.op = "get_split_markers" /\ ValidSplitCol) =>
        /\ returned.error = None
        /\ Len(returned.value) = Cardinality(Boundaries(points, split_col))
        /\ \A j \in 1..Len(returned.value) :
              /\ returned.value[j].begins = MinOf(Buckets(points, split_col)) + j
              /\ returned.value[j].ends = MinOf(Buckets(points, split_col)) + j - 1

\* C12: for every marker get_split_markers computes, portion is in [0, 1]
\* and p1.cumulative + portion * (p2.cumulative - p1.cumulative) is
\* begins * unit length.
C12_PortionHitsBoundary ==
    (returned.op = "get_split_markers" /\ returned.error = None) =>
        \A j \in 1..Len(returned.value) :
            LET i       == returned.value[j].begins
                portion == Portion(points, split_col, i)
                c1      == Float(P1(points, split_col, i).cumul_distance_2d)
                c2      == Float(P2(points, split_col, i).cumul_distance_2d)
            IN  /\ Leq(Float(0), portion)
                /\ Leq(portion, Float(1))
                /\ Between(c1, c2, portion) = Mul(Float(i), SplitLen(split_col))

\* a mile marker was computed, strictly between its two points
C12_Witness ==
    /\ returned.op = "get_split_markers"
    /\ returned.error = None
    /\ split_col = "mile"
    /\ Len(returned.value) >= 1
    /\ Less(Float(0), Portion(points, "mile", returned.value[1].begins))
    /\ Less(Portion(points, "mile", returned.value[1].begins), Float(1))

\* the time of the marker that begins bucket b, and of the one that ends it
BeginTime(b) ==
    LET markers == get_split_markers(split_col, points).value
    IN  markers[CHOOSE j \in 1..Len(markers) : markers[j].begins = b].time

EndTime(b) ==
    LET markers == get_split_markers(split_col, points).value
    IN  markers[CHOOSE j \in 1..Len(markers) : markers[j].ends = b].time

\* C13 as claimed: get_split_summary gives every bucket of the series a
\* duration: the first bucket the first marker's time minus the first point's
\* time, a middle bucket the time of the marker that ends it minus the time of
\* the marker that begins it, the last bucket the last point's time minus the
\* last marker's time.  (Stated for series of two buckets or more.)
C13_AsClaimed ==
    (/\ returned.op = "get_split_summary"
     /\ ValidSplitCol
     /\ Cardinality(Buckets(points, split_col)) >= 2) =>
        /\ returned.error = None
        /\ \A b \in Buckets(points, split_col) :
              returned.value[b].time =
                  Some(Sub(IF b = MaxOf(Buckets(points, split_col))
                           THEN Float(points[Len(points)].time) ELSE EndTime(b),
                           IF b = MinOf(Buckets(points, split_col))
                           THEN Float(points[1].time) ELSE BeginTime(b)))

\* C14: called with a unit other than 'km' or 'mile', get_split_markers and
\* get_split_summary fail with the invalid-argument error (ValueError) and
\* return nothing, whatever the points are, also when reading the points
\* would itself have failed.
C14_UnitCheckedFirst ==
    (returned.op \in {"get_split_markers", "get_split_summary"} /\ ~ValidSplitCol) =>
        /\ returned.error = Some("ValueError")
        /\ returned.value = None

\* get_split_markers was called with another unit on a series that has a
\* kilometre without a point
C14_Witness ==
    /\ returned.op = "get_split_markers"
    /\ split_col = "metre"
    /\ HasEmptyBucket("km")
    /\ returned.error = Some("ValueError")

----------------------------------------------------------------------------
(***************************************************************************)
(* infer_points_data, as pyft/serialize/parse.py has it and as the older   *)
(* pyft/parse/parsers.py has it.  A raw row holds point_no, latitude,      *)
(* time and hr; a position is a distance along one meridian, in metres,    *)
(* and a time is in seconds.  A column is a sequence, row 0 of the frame   *)
(* at 1; NaN and NaT are None.                                             *)
(***************************************************************************)
\* geo_utils.haversine_distance along one meridian; NaN when there is no
\* previous position
distance_2d(lat1, lat2) ==
    IF lat2 = None THEN None ELSE Some(Abs(lat1 - lat2[1]))

Column(rows, name) == [i \in 1..Len(rows) |-> rows[i][name]]

\* Series.shift(n) of a column without missing values
ShiftBy(col, n) ==
    [i \in 1..Len(col) |-> IF i - n \in 1..Len(col) THEN Some(col[i - n]) ELSE None]

\* Series.shift(n, fill_value=fill) of a column that may have missing values
ShiftFill(col, n, fill) ==
    [i \in 1..Len(col) |-> IF i - n \in 1..Len(col) THEN col[i - n] ELSE fill]

StepLengths(rows) ==
    LET latitude == Column(rows, "latitude")
        prev_lat == ShiftBy(latitude, 1)
    IN  [i \in 1..Len(rows) |-> distance_2d(latitude[i], prev_lat[i])]

\* fillna(0).cumsum(), up to row i
RECURSIVE CumSum(_, _)
CumSum(step, i) ==
    IF i = 0 THEN 0
    ELSE CumSum(step, i - 1) + (IF step[i] = None THEN 0 ELSE step[i][1])

\* the running total stops one row short
CumulDistancesOfPrevious(step) == [i \in 1..Len(step) |-> CumSum(step, i - 1)]

CumulDistances(step) == [i \in 1..Len(step) |-> CumSum(step, i)]

\* a - b, missing when b is
Minus(a, b) == IF b = None THEN None ELSE Some(a - b[1])

\* (unit / distance) * elapsed, missing when either is
Pace(unit, distance, elapsed) ==
    IF distance = None \/ elapsed = None THEN None
    ELSE Some(Mul(Div(unit, Float(distance[1])), Float(elapsed[1])))

\* 3600 / pace in seconds
Kmph(pace) == IF pace = None THEN None ELSE Some(Div(Float(3600), pace[1]))

\* kmph / (MILE / 1000)
Mph(kmph) ==
    IF kmph = None THEN None ELSE Some(Div(kmph[1], Div(MILE, Float(1000))))

\* pyft/serialize/parse.py
infer_points_data(frame, interval) ==
    LET missing    == INITIAL_COL_NAMES \ frame.columns
        rows       == frame.rows
        step       == StepLengths(rows)
        cumul      == CumulDistances(step)
        time       == Column(rows, "time")
        prev_time  == ShiftBy(time, interval)
        prev_cumul == ShiftBy(cumul, interval)
        interval_distance == [i \in 1..Len(rows) |-> Minus(cumul[i], prev_cumul[i])]
        km_pace    == [i \in 1..Len(rows) |->
                          Pace(Float(1000), interval_distance[i], Minus(time[i], prev_time[i]))]
        mile_pace  == [i \in 1..Len(rows) |->
                          Pace(MILE, step[i], Minus(time[i], prev_time[i]))]
    IN  IF missing # {}
        THEN [error |-> Some("ValueError"), missing |-> missing, value |-> None]
        ELSE IF rows = <<>>
             THEN [error |-> Some("IndexError"), missing |-> {}, value |-> None]
             ELSE [error |-> None, missing |-> {},
                   value |-> [i \in 1..Len(rows) |->
                       rows[i] @@
                       [step_length_2d |-> step[i],
                        cumul_distance_2d |-> cumul[i],
                        km |-> KmOf(cumul[i]),
                        mile |-> MileOf(cumul[i]),
                        run_time |-> time[i] - time[1],
                        km_pace |-> km_pace[i],
                        mile_pace |-> mile_pace[i],
                        kmph |-> Kmph(km_pace[i]),
                        mph |-> Mph(Kmph(km_pace[i]))]]]

\* the rows of a column that hold a value
Present(col) == {i \in 1..Len(col) : col[i] # None}

\* the sum of the values among the first i rows, missing ones skipped
RECURSIVE SumOf(_, _)
SumOf(col, i) ==
    IF i = 0 THEN Float(0)
    ELSE Add(SumOf(col, i - 1), IF col[i] = None THEN Float(0) ELSE col[i][1])

\* Series.mean(): NaN when no row holds a value
Mean(col) ==
    IF Present(col) = {} THEN None
    ELSE Some(Div(SumOf(col, Len(col)), Float(Cardinality(Present(col)))))

\* (km_pace - km_pace.mean()) squared
SquaredDeviations(col, mean) ==
    [i \in 1..Len(col) |->
        IF col[i] = None THEN None
        ELSE LET dev == Sub(col[i][1], mean[1]) IN Some(Mul(dev, dev))]

\* np.abs(zscore) < 1 for a value whose squared deviation is square, among
\* count values whose squared deviations add up to total; Series.std() is the
\* sample deviation.  False for a missing value, for fewer than two values
\* and for a deviation of zero, where zscore is NaN
WithinOneStd(square, total, count) ==
    /\ square # None
    /\ count >= 2
    /\ total.m # 0
    /\ Less(Mul(square[1], Float(count - 1)), total)

\* (shift(fill_value=mean_pace) + shift(-1, fill_value=mean_pace)) / 2
RollingMean(col, mean) ==
    LET left  == ShiftFill(col, 1, mean)
        right == ShiftFill(col, -1, mean)
    IN  [i \in 1..Len(col) |->
            IF left[i] = None \/ right[i] = None THEN None
            ELSE Some(Div(Add(left[i][1], right[i][1]), Float(2)))]

\* km_pace.where(np.abs(zscore) < 1, rolling_mean)
OutliersReplaced(col) ==
    LET mean_pace    == Mean(col)
        squares      == SquaredDeviations(col, mean_pace)
        total        == SumOf(squares, Len(col))
        count        == Cardinality(Present(col))
        rolling_mean == RollingMean(col, mean_pace)
    IN  [i \in 1..Len(col) |->
            IF WithinOneStd(squares[i], total, count) THEN col[i] ELSE rolling_mean[i]]

\* the rows of seq whose position is in keep, in order
RECURSIVE Keep(_, _, _)
Keep(seq, keep, i) ==
    IF i = 0 THEN <<>>
    ELSE IF i \in keep THEN Append(Keep(seq, keep, i - 1), seq[i])
         ELSE Keep(seq, keep, i - 1)

\* pyft/parse/parsers.py
parsers_infer_points_data(frame) ==
    LET missing   == INITIAL_COL_NAMES \ frame.columns
        rows      == frame.rows
        step      == StepLengths(rows)
        cumul     == CumulDistances(step)
        time      == Column(rows, "time")
        prev_time == ShiftBy(time, 1)
        km_pace   == OutliersReplaced(
                         [i \in 1..Len(rows) |->
                             Pace(Float(1000), step[i], Minus(time[i], prev_time[i]))])
        \* dropna: a row with a missing value in any column goes
        kept      == {i \in 1..Len(rows) :
                         /\ rows[i].hr # None
                         /\ step[i] # None
                         /\ prev_time[i] # None
                         /\ km_pace[i] # None}
        all       == [i \in 1..Len(rows) |->
                         rows[i] @@
                         [step_length_2d |-> step[i],
                          cumul_distance_2d |-> cumul[i],
                          km |-> KmOf(cumul[i]),
                          mile |-> MileOf(cumul[i]),
                          km_pace |-> km_pace[i],
                          mile_pace |-> Pace(MILE, step[i], Minus(time[i], prev_time[i])),
                          kmph |-> Kmph(km_pace[i]),
                          mph |-> Mph(Kmph(km_pace[i]))]]
        left      == Keep(all, kept, Len(rows))
    IN  IF missing # {}
        THEN [error |-> Some("ValueError"), missing |-> missing, value |-> None]
        ELSE IF left = <<>>
             THEN [error |-> Some("IndexError"), missing |-> {}, value |-> None]
             ELSE [error |-> None, missing |-> {},
                   value |-> [i \in 1..Len(left) |->
                       left[i] @@ [run_time |-> left[i].time - left[1].time]]]

\* what one row adds to the position and to the time of the row before it,
\* and whether it has a heart rate
MoveInputs ==
    {[north |-> 500, elapsed |-> 1, hr |-> TRUE],
     [north |-> -250, elapsed |-> 1, hr |-> TRUE],
     [north |-> 1000, elapsed |-> 2, hr |-> TRUE],
     [north |-> 500, elapsed |-> 1, hr |-> FALSE]}

RawRow(point_no, latitude, time, hr) ==
    [point_no |-> point_no, latitude |-> latitude, time |-> time, hr |-> hr]

\* the raw frames of n rows: consecutive positions differ and times go up
RECURSIVE RawFramesOf(_)
RawFramesOf(n) ==
    IF n = 0 THEN {<<>>}
    ELSE IF n = 1 THEN {<<RawRow(0, 0, 0, h)>> : h \in HrOfRow(1)}
    ELSE {Append(f, RawRow(n - 1, f[n - 1].latitude + mv.north,
                           f[n - 1].time + mv.elapsed,
                           IF mv.hr THEN Some(60 + 10 * n) ELSE None)) :
             f \in RawFramesOf(n - 1), mv \in MoveInputs}

\* all the columns, or some of them missing
ColumnInputs ==
    {INITIAL_COL_NAMES, INITIAL_COL_NAMES \ {"hr"},
     INITIAL_COL_NAMES \ {"latitude", "time"}}

IntervalInputs == {1, 2}

\* the frames given to infer_points_data: with all the columns, of any
\* length; with columns missing, of one row at most
FrameInputs ==
    [columns : {INITIAL_COL_NAMES}, rows : UNION {RawFramesOf(n) : n \in 0..MaxBuildPoints}]
        \cup [columns : ColumnInputs, rows : RawFramesOf(0) \cup RawFramesOf(1)]

BuildInit ==
    /\ _point = -1
    /\ _points_data = <<>>
    /\ _backfill = <<>>
    /\ _points = None
    /\ pc = "parsing"
    /\ arrived = <<>>
    /\ laps = <<>>
    /\ points = <<>>
    /\ returned = [op |-> "none", error |-> None, value |-> None]
    /\ split_col = "km"
    /\ config \in [speed_measure_interval : IntervalInputs]
    /\ df \in FrameInputs
    /\ gpx = [track_type |-> None, creator |-> None]
    /\ _metadata = NoMetadata
    /\ kwargs = None

CallInferPointsData ==
    /\ returned' = [op |-> "infer_points_data"] @@
                       infer_points_data(df, config.speed_measure_interval)
    /\ UNCHANGED <<laps, points>>
    /\ UNCHANGED fitVars
    /\ UNCHANGED callVars

CallParsersInferPointsData ==
    /\ returned' = [op |-> "parsers.infer_points_data"] @@ parsers_infer_points_data(df)
    /\ UNCHANGED <<laps, points>>
    /\ UNCHANGED fitVars
    /\ UNCHANGED callVars

BuildNext == CallInferPointsData \/ CallParsersInferPointsData

BuildSpec == BuildInit /\ [][BuildNext]_vars

----------------------------------------------------------------------------
(***************************************************************************)
(* Properties of infer_points_data.                                        *)
(***************************************************************************)
\* infer_points_data of pyft/serialize/parse.py has returned a frame
Built == returned.op = "infer_points_data" /\ returned.error = None

\* unit / (cumul[i] - cumul[i - N]) * (time[i] - time[i - N]) over the
\* returned frame, missing for the first N rows
IntervalPace(unit, i) ==
    LET N == config.speed_measure_interval
        v == returned.value
    IN  IF i - N < 1 THEN None
        ELSE Some(Mul(Div(unit, Float(v[i].cumul_distance_2d - v[i - N].cumul_distance_2d)),
                      Float(v[i].time - v[i - N].time)))

\* C15 as claimed: both pace columns are computed over the lookback interval
\* N: km pace is 1000 / (cumul[i] - cumul[i-N]) * (time[i] - time[i-N]), mile
\* pace is 1609.344 / (cumul[i] - cumul[i-N]) * (time[i] - time[i-N]), and
\* both are missing in the first N rows.
C15_AsClaimed ==
    Built =>
        \A i \in 1..Len(returned.value) :
            /\ returned.value[i].km_pace = IntervalPace(Float(1000), i)
            /\ returned.value[i].mile_pace = IntervalPace(MILE, i)

\* the pace column before any correction, and a neighbour of row i in it:
\* the overall mean where there is none
RawPaces == [i \in 1..Len(returned.value) |-> IntervalPace(Float(1000), i)]

Neighbour(col, j) ==
    IF j \in 1..Len(col) /\ col[j] # None THEN col[j][1] ELSE Mean(col)[1]

\* C16 as claimed: the build replaces every pace whose z-score against the
\* mean and the standard deviation of the whole pace column has |z| >= 1 by
\* the average of the uncorrected paces of its two neighbours (the overall
\* mean for a neighbour that is missing), and leaves every pace with |z| < 1
\* as it is.
C16_AsClaimed ==
    Built =>
        LET squares == SquaredDeviations(RawPaces, Mean(RawPaces))
            total   == SumOf(squares, Len(RawPaces))
            count   == Cardinality(Present(RawPaces))
        IN  (count >= 2 /\ total.m # 0) =>
                \A i \in Present(RawPaces) :
                    returned.value[i].km_pace =
                        IF WithinOneStd(squares[i], total, count) THEN RawPaces[i]
                        ELSE Some(Div(Add(Neighbour(RawPaces, i - 1),
                                          Neighbour(RawPaces, i + 1)), Float(2)))

C18_BucketsAreFloors ==
    Built =>
        LET v == returned.value
        IN  /\ \A i \in 1..Len(v) :
                  /\ v[i].km * 1000 <= v[i].cumul_distance_2d
                  /\ v[i].cumul_distance_2d < (v[i].km + 1) * 1000
                  /\ v[i].mile * 1609344 <= v[i].cumul_distance_2d * 1000
                  /\ v[i].cumul_distance_2d * 1000 < (v[i].mile + 1) * 1609344
            /\ \A i \in 2..Len(v) :
                  /\ v[i - 1].km <= v[i].km
                  /\ v[i - 1].mile <= v[i].mile

\* a frame was built that reaches the third kilometre in its second mile
C18_Witness ==
    /\ Built
    /\ \E i \in 1..Len(returned.value) :
          returned.value[i].km = 2 /\ returned.value[i].mile = 1

\* C19 as claimed: given a frame that lacks one of the mandatory columns, or
\* a frame of no rows, infer_points_data fails with the schema error
\* (ValueError), which names what is missing.
C19_AsClaimed ==
    (/\ returned.op = "infer_points_data"
     /\ (INITIAL_COL_NAMES \ df.columns # {} \/ df.rows = <<>>)) =>
        /\ returned.error = Some("ValueError")
        /\ returned.missing # {}

----------------------------------------------------------------------------
(***************************************************************************)
(* The activity type of the two parsers.  A string that startswith() is    *)
(* asked about is a sequence of pieces, the string being the pieces put    *)
(* together.                                                               *)
(***************************************************************************)
MaxMetaSamples == 1

StartsWith(string, prefix) == string # <<>> /\ string[1] = prefix

\* GPXParser.activity_type: reading .startswith of no creator raises
\* AttributeError
activity_type(g) ==
    IF g.track_type # None /\ g.track_type[1] \in ACTIVITY_TYPES
    THEN [error |-> None, value |-> g.track_type]
    ELSE IF g.creator = None
    THEN [error |-> Some("AttributeError"), value |-> None]
    ELSE IF StartsWith(g.creator[1], "StravaGPX")
    THEN [error |-> None, value |-> DictGet(STRAVA_TYPES, g.track_type, Some("unknown"))]
    ELSE IF StartsWith(g.creator[1], "Garmin Connect")
    THEN [error |-> None, value |-> DictGet(GARMIN_TYPES, g.track_type, Some("unknown"))]
    ELSE [error |-> None, value |-> Some("unknown")]

\* the <type> of the first track: absent, an activity type, a code of an
\* exporter, or something else
TrackTypeInputs == {None, Some("run"), Some("9"), Some("running"), Some("Ride")}

\* the creator attribute: absent, or an exporter's name
CreatorInputs ==
    {None, Some(<<"StravaGPX">>), Some(<<"StravaGPX", " Android">>),
     Some(<<"Garmin Connect", " 4.50">>), Some(<<"gpx.py">>)}

\* the sport field of a FIT frame
SportInputs == {"running", "walking", "hiking", "cycling"}

\* the timestamp of a frame that is not a sample: absent or present
FrameTimeInputs == {None, Some(9)}

MetaInit ==
    /\ _point = -1
    /\ _points_data = <<>>
    /\ _backfill = <<>>
    /\ _points = None
    /\ pc = "parsing"
    /\ arrived = <<>>
    /\ laps = <<>>
    /\ points = <<>>
    /\ returned = [op |-> "none", error |-> None, value |-> None]
    /\ split_col = "km"
    /\ config = [speed_measure_interval |-> 1]
    /\ df = [columns |-> INITIAL_COL_NAMES, rows |-> <<>>]
    /\ gpx \in [track_type : TrackTypeInputs, creator : CreatorInputs]
    /\ _metadata = NoMetadata
    /\ kwargs = None

\* a frame of the loop in _parse with a sport field and no altitude
SportFrame ==
    /\ pc = "parsing"
    /\ \E sport \in SportInputs, timestamp \in FrameTimeInputs :
          _metadata' = WithActivityType(WithDateTime(_metadata, timestamp), Some(sport))
    /\ UNCHANGED <<split_col, config, df, gpx, kwargs>>
    /\ UNCHANGED fitVars
    /\ UNCHANGED lapVars

\* a frame of the loop in _parse with a timestamp and an altitude, with or
\* without a position
MetaSample ==
    /\ Len(arrived) < MaxMetaSamples
    /\ \E lat \in RawLatInputs(_point + 1), lon \in RawLonInputs(_point + 1) :
          _add_point(lat, lon, Some(100 + _point + 1), TimeInput(_point + 1), None, None)
    /\ _metadata' = WithDateTime(_metadata, TimeInput(_point + 1))

\* FITParser.activity_type, once the parser is built
FitActivityType ==
    /\ pc = "done"
    /\ returned' = [op |-> "FITParser.activity_type", error |-> None,
                    value |-> _metadata.activity_type]
    /\ UNCHANGED <<laps, points>>
    /\ UNCHANGED fitVars
    /\ UNCHANGED callVars

GpxActivityType ==
    /\ returned' = [op |-> "GPXParser.activity_type"] @@ activity_type(gpx)
    /\ UNCHANGED <<laps, points>>
    /\ UNCHANGED fitVars
    /\ UNCHANGED callVars

MetaNext ==
    SportFrame \/ MetaSample \/ EndOfStream \/ FitActivityType \/ GpxActivityType

MetaSpec == MetaInit /\ [][MetaNext]_vars

\* C20 as claimed: the activity type a parser returns is always one of run,
\* walk, hike and unknown: for GPX also when the track type is outside the
\* set and the creator is absent, unrecognised or has no such code, for FIT
\* also when the sport is not in the table or the file has no sport field.
C20_AsClaimed ==
    returned.op \in {"GPXParser.activity_type", "FITParser.activity_type"} =>
        /\ returned.error = None
        /\ returned.value \in {Some(t) : t \in ACTIVITY_TYPES \cup {"unknown"}}

----------------------------------------------------------------------------
(***************************************************************************)
(* Further properties of the build, of the split summary, of the FIT       *)
(* parser's buffer and of the speed conversion.                            *)
(***************************************************************************)
\* the fields of a raw row
RawFields == {"point_no", "latitude", "time", "hr"}

\* C21 as claimed: for every raw frame with all the columns and a row at
\* least, also one with a null heart rate on some or on all rows,
\* infer_points_data (of either parser module) returns one row per raw row,
\* in the same order and with the raw fields unchanged.
C21_AsClaimed ==
    (/\ returned.op \in {"infer_points_data", "parsers.infer_points_data"}
     /\ df.columns = INITIAL_COL_NAMES
     /\ df.rows # <<>>) =>
        /\ returned.error = None
        /\ Len(returned.value) = Len(df.rows)
        /\ \A i \in 1..Len(df.rows) :
              \A k \in RawFields : returned.value[i][k] = df.rows[i][k]

\* C22 as claimed: get_split_summary returns a result, without raising, for
\* every series of one point or more, also when all the points are in one
\* bucket; then that bucket's duration is the last point's time minus the
\* first point's.
C22_AsClaimed ==
    (returned.op = "get_split_summary" /\ ValidSplitCol) =>
        /\ returned.error = None
        /\ Cardinality(Buckets(points, split_col)) = 1 =>
              \A b \in Buckets(points, split_col) :
                  returned.value[b].time =
                      Some(Float(points[Len(points)].time - points[1].time))

\* the durations of the buckets lo..hi of a returned summary, added up
RECURSIVE SumOfDurations(_, _)
SumOfDurations(lo, hi) ==
    IF hi < lo THEN Float(0)
    ELSE Add(SumOfDurations(lo, hi - 1), returned.value[hi].time[1])

\* C23 as claimed: for a series that spans two buckets or more, the
\* durations get_split_summary returns, over all the buckets, add up to the
\* last point's time minus the first point's.
C23_AsClaimed ==
    (/\ returned.op = "get_split_summary"
     /\ ValidSplitCol
     /\ Cardinality(Buckets(points, split_col)) >= 2) =>
        /\ returned.error = None
        /\ \A b \in DOMAIN returned.value : returned.value[b].time # None
        /\ SumOfDurations(MinOf(Buckets(points, split_col)),
                          MaxOf(Buckets(points, split_col))) =
               Float(points[Len(points)].time - points[1].time)

\* the place of point number n in a list of rows: the rows that carry it
PlacesOf(rows, n) == {i \in 1..Len(rows) : rows[i].point_no = Some(n)}

\* C24: after any samples accepted by _add_point, every accepted sample is in
\* exactly one of the emitted list and the buffer: the two lengths add up to
\* the number of accepted samples, which is the last point number plus one;
\* the buffer holds only samples that came without a latitude or without a
\* longitude, and it is empty right after a sample with both.
C24_EmittedOrBuffered ==
    /\ Len(_points_data) + Len(_backfill) = Len(arrived)
    /\ Len(arrived) = _point + 1
    /\ \A n \in 0.._point :
          Cardinality(PlacesOf(_points_data, n)) + Cardinality(PlacesOf(_backfill, n)) = 1
    /\ \A j \in 1..Len(_backfill) :
          \E t \in 1..Len(arrived) :
              /\ arrived[t] = _backfill[j]
              /\ arrived[t].latitude = None \/ arrived[t].longitude = None
    /\ (arrived # <<>> /\ Complete(arrived[Len(arrived)])) => _backfill = <<>>

\* a sample waited and was emitted with the next one, and a third one waits
C24_Witness ==
    /\ Len(arrived) = 3
    /\ Len(_points_data) = 2
    /\ Len(_backfill) = 1
    /\ ~Complete(arrived[1])

----------------------------------------------------------------------------
(***************************************************************************)
(* ActivityMetaData.  A timedelta is its seconds and its microseconds.     *)
(***************************************************************************)
\* the fields of the object after __post_init__: one that was given stays,
\* one that was not is derived
ActivityMetaData(cfg, kw) ==
    LET distance_2d_mile ==
            IF kw.distance_2d_mile = None
            THEN Some(Div(Mul(kw.distance_2d_km[1], Float(1000)), MILE))
            ELSE kw.distance_2d_mile
        kmph_mean ==
            IF kw.kmph_mean = None
            THEN Some(Div(Float(3600), Float(kw.km_pace_mean[1].seconds)))
            ELSE kw.kmph_mean
        mph_mean ==
            IF kw.mph_mean = None THEN Some(Div(kmph_mean[1], MILE)) ELSE kw.mph_mean
        mile_pace_mean ==
            IF kw.mile_pace_mean = None THEN Some(Div(Float(60), mph_mean[1]))
            ELSE kw.mile_pace_mean
        activity_type_ ==
            IF kw.activity_type = None THEN Some(cfg.default_activity_type)
            ELSE kw.activity_type
    IN  [distance_2d_km   |-> kw.distance_2d_km,
         km_pace_mean     |-> kw.km_pace_mean,
         distance_2d_mile |-> distance_2d_mile,
         kmph_mean        |-> kmph_mean,
         mph_mean         |-> mph_mean,
         mile_pace_mean   |-> mile_pace_mean,
         activity_type    |-> activity_type_]

\* the mean pace of the points: minutes per kilometre, with or without a
\* fraction of a second
PaceMeanInputs ==
    {Some([seconds |-> sec, microseconds |-> us]) :
        sec \in {240, 300, 360, 400}, us \in {0, 500000}}

\* what the caller gives; each derived field is given or left out
KwargsInputs ==
    [distance_2d_km   : {Some(Float(5)), Some(Float(10)), Some(Div(Float(21), Float(2)))},
     km_pace_mean     : PaceMeanInputs,
     distance_2d_mile : {None},
     kmph_mean        : {None, Some(Float(12))},
     mph_mean         : {None, Some(Float(8))},
     mile_pace_mean   : {None},
     activity_type    : {None, Some("hike")}]

SummaryInit ==
    /\ _point = -1
    /\ _points_data = <<>>
    /\ _backfill = <<>>
    /\ _points = None
    /\ pc = "parsing"
    /\ arrived = <<>>
    /\ laps = <<>>
    /\ points = <<>>
    /\ returned = [op |-> "none", error |-> None, value |-> None]
    /\ split_col = "km"
    /\ config = [speed_measure_interval |-> 1, default_activity_type |-> "run"]
    /\ df = [columns |-> INITIAL_COL_NAMES, rows |-> <<>>]
    /\ gpx = [track_type |-> None, creator |-> None]
    /\ _metadata = NoMetadata
    /\ kwargs \in KwargsInputs

NewActivityMetaData ==
    /\ returned' = [op |-> "ActivityMetaData", error |-> None,
                    value |-> ActivityMetaData(config, kwargs)]
    /\ UNCHANGED <<laps, points>>
    /\ UNCHANGED fitVars
    /\ UNCHANGED callVars

SummaryNext == NewActivityMetaData

SummarySpec == SummaryInit /\ [][SummaryNext]_vars

\* C25 as claimed: the conversion from km/h to mph is the same everywhere:
\* when mph_mean is not supplied, ActivityMetaData.__post_init__ sets it to
\* kmph_mean / 1.609344, which is what the mph column of the points is of the
\* kmph column.
C25_AsClaimed ==
    (returned.op = "ActivityMetaData" /\ kwargs.mph_mean = None) =>
        /\ returned.value.mph_mean =
               Some(Div(returned.value.kmph_mean[1], Div(Float(1609344), Float(1000000))))
        /\ returned.value.mph_mean = Mph(returned.value.kmph_mean)

====
